---- MODULE Spec2Model ----
(***************************************************************************)
(* rc_borrow_mut: a mutable borrow of the contents of an Rc<T>.            *)
(*                                                                         *)
(* One control block (RcBox: strong, weak, value) lives at address ptr.    *)
(* The std operations on Rc / Weak (clone, drop, downgrade, upgrade) act   *)
(* on the block through the pointer the Rc holds; the operations of this   *)
(* crate (try_borrow_mut, borrow_mut, the handle's Deref, DerefMut and     *)
(* Drop) recover the block's address from the pointee's address with       *)
(* hack::raw_to_rc_box and act on whatever lies there.                     *)
(***************************************************************************)
EXTENDS Integers, FiniteSets, Sequences, TLC

\* ---- bounds of the model ------------------------------------------------
MaxStrong == 3      \* clone / upgrade stop at this strong count
MaxWeak == 2        \* downgrade stops at this many Weak pointers
MaxVal == 2         \* pointee values are 0..MaxVal
MaxMuts == 2        \* writes through one handle
MaxAlign == 32      \* largest pointee alignment
UsizeBits == 8      \* width of the model's usize (counts wrap at 2^UsizeBits)
MaxRest == 2        \* elements of an unsized pointee after its first
MaxRounds == 2      \* completed borrow windows that are told apart

\* ---- program constants --------------------------------------------------
UsizeSize == 8      \* size_of::<Cell<usize>>(), the two header fields
SliceAlign == 4     \* align_of::<i32>(), the element of the Rc<[i32]> of tests::unsize

Values == 0..MaxVal
NoVal == 0 - 1
Builds == {"debug", "release"}
UsizeModulus == 2 ^ UsizeBits
Wrap(x) == x % UsizeModulus

RECURSIVE IsPow2(_)
IsPow2(n) == IF n = 1 THEN TRUE ELSE IF n % 2 = 1 THEN FALSE ELSE IsPow2(n \div 2)
Aligns == {a \in 1..MaxAlign : IsPow2(a)}

VARIABLES
    build,      \* "debug": debug_assert! is compiled in; "release": it is not
    align,      \* align_of_val of the pointee
    ptr,        \* address of the RcBox the Rc pointers hold
    strong,     \* RcBox.strong
    weak,       \* RcBox.weak (the strong pointers together hold one)
    value,      \* RcBox.value, the pointee
    alive,      \* the pointee's destructor has not run
    drops,      \* how many times the pointee's destructor ran
    freed,      \* the RcBox was deallocated
    rcs,        \* live Rc pointers
    weaks,      \* live Weak pointers
    handles,    \* open BorrowRefMut handles (each borrows one Rc mutably)
    muts,       \* writes made through the open handle
    logical,    \* the contents the callers have written (initial value, then each write)
    mode,       \* "run", "unwind" (a panic is unwinding the frame) or "abort"
    ub,         \* a read or write fell outside the three fields of the RcBox
    last,       \* the last operation, its result and the value it read
    rest,       \* the elements of an unsized pointee ([T]) after its first; <<>> if sized
    out,        \* the text the last operation formatted (the temporary of format!)
    rounds      \* borrow windows completed so far (MaxRounds stands for that or more)

vars == <<build, align, ptr, strong, weak, value, alive, drops, freed, rcs, weaks,
          handles, muts, logical, mode, ub, last, rest, out, rounds>>

NoOut == <<>>

\* ---- layout and address recovery (mod hack) -------------------------------

\* Layout::new::<RcBox<()>>(): the two counts, no payload.
HeaderSize == 2 * UsizeSize

\* Layout::padding_needed_for: round size up to align, minus size.
padding_needed_for(size, a) == ((size + a - 1) \div a) * a - size

data_offset_align_NoPad(a) == HeaderSize

data_offset_align_OneField(a) == UsizeSize + padding_needed_for(UsizeSize, a)

data_offset_align(a) == HeaderSize + padding_needed_for(HeaderSize, a)

data_offset(p) == data_offset_align(align)

raw_to_rc_box_NoSub(p) == p

raw_to_rc_box_WordOff(p) == p - data_offset(p) + UsizeSize

raw_to_rc_box(p) == p - data_offset(p)

\* #[repr(C)] RcBox: strong at 0, weak after it, value at the next multiple of
\* its alignment.
StrongAddr == ptr
WeakAddr == ptr + UsizeSize
ValueOffset == ((2 * UsizeSize + align - 1) \div align) * align
ValueAddr == ptr + ValueOffset

\* Rc::as_ptr: the address of the pointee.
Rc_as_ptr == ValueAddr

Fields == {StrongAddr, WeakAddr, ValueAddr}

Load(addr) ==
    IF addr = StrongAddr THEN strong
    ELSE IF addr = WeakAddr THEN weak
    ELSE IF addr = ValueAddr THEN value
    ELSE 0

Store(addr, v) ==
    /\ strong' = IF addr = StrongAddr THEN v ELSE strong
    /\ weak' = IF addr = WeakAddr THEN v ELSE weak
    /\ value' = IF addr = ValueAddr THEN v ELSE value
    /\ ub' = (ub \/ addr \notin Fields)

Mem == <<strong, weak, value, ub>>

\* the elements of a slice pointee that follow the one at addr
LoadRest(addr) == IF addr = ValueAddr THEN rest ELSE <<>>

StoreRest(addr, s) == rest' = IF addr = ValueAddr THEN s ELSE rest

\* <[T]>::sort, in place
RECURSIVE sort_insert(_, _)
sort_insert(x, s) ==
    IF s = <<>> THEN <<x>>
    ELSE IF x <= Head(s) THEN <<x>> \o s
    ELSE <<Head(s)>> \o sort_insert(x, Tail(s))

RECURSIVE slice_sort(_)
slice_sort(s) == IF s = <<>> THEN <<>> ELSE sort_insert(Head(s), slice_sort(Tail(s)))

RECURSIVE SeqsUpTo(_)
SeqsUpTo(n) ==
    IF n = 0 THEN {<<>>}
    ELSE LET shorter == SeqsUpTo(n - 1)
         IN  shorter \cup {<<v>> \o t : v \in Values, t \in {u \in shorter : Len(u) = n - 1}}

Op(o, r, v) == [op |-> o, res |-> r, val |-> v]

\* ---- initial state: Rc::new(v) --------------------------------------------
Init ==
    /\ build \in Builds
    /\ align \in Aligns
    /\ ptr \in {a \in MaxAlign..(2 * MaxAlign) : a % align = 0 /\ a % UsizeSize = 0}
    /\ strong = 1
    /\ weak = 1
    /\ value \in Values
    /\ logical = value
    /\ alive = TRUE
    /\ drops = 0
    /\ freed = FALSE
    /\ rcs = 1
    /\ weaks = 0
    /\ handles = 0
    /\ muts = 0
    /\ mode = "run"
    /\ ub = FALSE
    /\ last = Op("new", "Ok", NoVal)
    /\ rest = <<>>
    /\ out = NoOut
    /\ rounds = 0

\* the orders of the MaxRest + 1 elements 0 .. MaxRest (vec![0, 2, 1] is one)
SliceOrders ==
    {s \in SeqsUpTo(MaxRest + 1) :
        /\ Len(s) = MaxRest + 1
        /\ \A i \in 1..Len(s) : s[i] <= MaxRest
        /\ \A i, j \in 1..Len(s) : i # j => s[i] # s[j]}

\* Rc<[i32]>: the pointee is a slice (tests::unsize)
InitSlice ==
    /\ build \in Builds
    /\ align = SliceAlign
    /\ ptr = 2 * MaxAlign
    /\ strong = 1
    /\ weak = 1
    /\ \E s \in SliceOrders : value = Head(s) /\ rest = Tail(s)
    /\ logical = value
    /\ alive = TRUE
    /\ drops = 0
    /\ freed = FALSE
    /\ rcs = 1
    /\ weaks = 0
    /\ handles = 0
    /\ muts = 0
    /\ mode = "run"
    /\ ub = FALSE
    /\ last = Op("new", "Ok", NoVal)
    /\ out = NoOut
    /\ rounds = 0

Running == mode = "run" /\ ~ub /\ ~freed
Dropping == mode \in {"run", "unwind"} /\ ~ub /\ ~freed
\* an Rc that no handle borrows is at hand
FreeRc == rcs > handles

\* ---- this crate ------------------------------------------------------------

OtherStrong_OffByOne(count) == count > 2

OtherStrong_Never(count) == FALSE

OtherStrong_NotOne(count) == count # 1

\* the eligibility test of try_borrow_mut: other strong references exist
OtherStrong(count) == count > 1

BorrowUpdate_Keep(x) == x

\* the closure try_borrow_mut updates strong with
BorrowUpdate(x) == x - 1

ReleaseUpdate_Keep(x) == x

ReleaseUpdate_Twice(x) == x + 2

\* the closure the handle's Drop updates strong with
ReleaseUpdate(x) == x + 1

\* try_borrow_mut, with its result
try_borrow_mut(res) ==
    LET count == strong
        raw == Rc_as_ptr
        rc_box == raw_to_rc_box(raw)
        x == Load(rc_box)
    IN  IF build = "debug" /\ count = 0
        THEN res = "AssertFailed" /\ UNCHANGED <<Mem, handles, muts>>
        ELSE IF OtherStrong(count)
        THEN res = "Err" /\ UNCHANGED <<Mem, handles, muts>>
        ELSE IF build = "debug" /\ x # 1
        THEN res = "AssertFailed" /\ UNCHANGED <<Mem, handles, muts>>
        ELSE /\ res = "Ok"
             /\ Store(rc_box, Wrap(BorrowUpdate(x)))
             /\ handles' = handles + 1
             /\ muts' = 0

TryBorrowMut ==
    /\ Running /\ FreeRc
    /\ \E res \in {"Ok", "Err", "AssertFailed"} :
          /\ try_borrow_mut(res)
          /\ mode' = IF res = "AssertFailed" THEN "unwind" ELSE "run"
          /\ last' = Op("try_borrow_mut", res, NoVal)
    /\ out' = NoOut /\ UNCHANGED <<rest, rounds, build, align, ptr, alive, drops, freed, rcs, weaks, logical>>

BorrowMut_NoPanic ==
    /\ Running /\ FreeRc
    /\ \E res \in {"Ok", "Err", "AssertFailed"} :
          /\ try_borrow_mut(res)
          /\ mode' = IF res = "AssertFailed" THEN "unwind" ELSE "run"
          /\ last' = Op("borrow_mut", res, NoVal)
    /\ out' = NoOut /\ UNCHANGED <<rest, rounds, build, align, ptr, alive, drops, freed, rcs, weaks, logical>>

\* borrow_mut: try_borrow_mut(me).unwrap()
BorrowMut ==
    /\ Running /\ FreeRc
    /\ \E res \in {"Ok", "Err", "AssertFailed"} :
          /\ try_borrow_mut(res)
          /\ mode' = IF res = "Ok" THEN "run" ELSE "unwind"
          /\ last' = Op("borrow_mut", IF res = "Err" THEN "Panic" ELSE res, NoVal)
    /\ out' = NoOut /\ UNCHANGED <<rest, rounds, build, align, ptr, alive, drops, freed, rcs, weaks, logical>>

\* Deref for BorrowRefMut
deref == Load(Rc_as_ptr)

HandleDeref ==
    /\ Running /\ handles > 0
    /\ last' = Op("deref", "Ok", deref)
    /\ ub' = (ub \/ Rc_as_ptr \notin Fields)
    /\ out' = NoOut /\ UNCHANGED <<rest, rounds, build, align, ptr, strong, weak, value, alive, drops, freed, rcs,
                   weaks, handles, muts, logical, mode>>

\* the pointee's own formatting: an i32 in decimal (Display and Debug alike),
\* a slice as the Debug list of its elements
DigitChars == <<"0", "1", "2", "3", "4", "5", "6", "7", "8", "9">>

RECURSIVE FormatInt(_)
FormatInt(n) ==
    IF n < Len(DigitChars) THEN <<DigitChars[n + 1]>>
    ELSE FormatInt(n \div Len(DigitChars)) \o <<DigitChars[(n % Len(DigitChars)) + 1]>>

RECURSIVE FormatItems(_)
FormatItems(s) ==
    IF s = <<>> THEN <<>>
    ELSE IF Len(s) = 1 THEN FormatInt(s[1])
    ELSE FormatInt(s[1]) \o <<",", " ">> \o FormatItems(Tail(s))

T_fmt(kind, v, r) ==
    IF r = <<>> THEN FormatInt(v)
    ELSE <<"[">> \o FormatItems(<<v>> \o r) \o <<"]">>

handle_fmt_Derived(kind) ==
    IF kind = "Debug"
    THEN <<"BorrowRefMut { inner: ">> \o T_fmt(kind, deref, LoadRest(Rc_as_ptr)) \o <<" }">>
    ELSE T_fmt(kind, deref, LoadRest(Rc_as_ptr))

\* Debug / Display for BorrowRefMut: (**self).fmt(f)
handle_fmt(kind) == T_fmt(kind, deref, LoadRest(Rc_as_ptr))

\* format!("{}", mutable) or format!("{:?}", mutable); a slice has no Display
HandleFmt ==
    /\ Running /\ handles > 0
    /\ \E kind \in {"Display", "Debug"} :
          /\ kind = "Display" => rest = <<>>
          /\ out' = handle_fmt(kind)
          /\ last' = Op("fmt", kind, NoVal)
    /\ UNCHANGED <<rest, rounds, build, align, ptr, strong, weak, value, alive, drops,
                   freed, rcs, weaks, handles, muts, logical, mode, ub>>

\* DerefMut for BorrowRefMut, and a write of v through the mutable view
deref_mut_Copy(v) == UNCHANGED Mem

deref_mut(v) == Store(Rc_as_ptr, v)

HandleDerefMut ==
    /\ Running /\ handles > 0 /\ muts < MaxMuts
    /\ \E v \in Values :
          /\ deref_mut(v)
          /\ logical' = v
          /\ last' = Op("deref_mut", "Ok", v)
    /\ muts' = muts + 1
    /\ out' = NoOut /\ UNCHANGED <<rest, rounds, build, align, ptr, alive, drops, freed, rcs, weaks, handles, mode>>

\* mutable.sort(): the slice is sorted in place through the mutable view
HandleSort ==
    /\ Running /\ handles > 0 /\ muts < MaxMuts
    /\ LET raw == Rc_as_ptr
           slice == <<Load(raw)>> \o LoadRest(raw)
           sorted == slice_sort(slice)
       IN  /\ deref_mut(Head(sorted))
           /\ StoreRest(raw, Tail(sorted))
           /\ logical' = Head(slice_sort(<<logical>> \o rest))
           /\ last' = Op("sort", IF sorted = slice THEN "Same" ELSE "Reordered",
                         Head(sorted))
    /\ muts' = muts + 1
    /\ out' = NoOut
    /\ UNCHANGED <<rounds, build, align, ptr, alive, drops, freed, rcs, weaks, handles,
                   mode>>

drop_handle_NotWhenPanicking(res) ==
    LET raw == Rc_as_ptr
        rc_box == raw_to_rc_box(raw)
        x == Load(rc_box)
    IN  IF mode = "unwind"
        THEN res = "Ok" /\ UNCHANGED Mem
        ELSE IF build = "debug" /\ x # 0
        THEN res = "AssertFailed" /\ UNCHANGED Mem
        ELSE res = "Ok" /\ Store(rc_box, Wrap(ReleaseUpdate(x)))

\* Drop for BorrowRefMut, with its result
drop_handle(res) ==
    LET raw == Rc_as_ptr
        rc_box == raw_to_rc_box(raw)
        x == Load(rc_box)
    IN  IF build = "debug" /\ x # 0
        THEN res = "AssertFailed" /\ UNCHANGED Mem
        ELSE res = "Ok" /\ Store(rc_box, Wrap(ReleaseUpdate(x)))

\* The handle goes out of scope: at the end of its scope or by drop() while the
\* caller runs, or as a local of the frame a panic unwinds.
Release ==
    /\ Dropping /\ handles > 0
    /\ \E res \in {"Ok", "AssertFailed"} :
          /\ drop_handle(res)
          /\ mode' = IF res = "Ok" THEN mode
                     ELSE IF mode = "unwind" THEN "abort" ELSE "unwind"
          /\ last' = Op("release", res, NoVal)
    /\ handles' = handles - 1
    /\ rounds' = IF rounds < MaxRounds THEN rounds + 1 ELSE rounds
    /\ out' = NoOut /\ UNCHANGED <<rest, build, align, ptr, alive, drops, freed, rcs, weaks, muts, logical>>

\* ---- the callers: panics -----------------------------------------------------

\* A panic is raised in the caller's code (tests::panic, the assert of
\* tests::dropper); the frame starts to unwind.
Panic ==
    /\ Running
    /\ mode' = "unwind"
    /\ last' = Op("panic", "Panic", NoVal)
    /\ out' = NoOut /\ UNCHANGED <<rest, rounds, build, align, ptr, strong, weak, value, alive, drops, freed, rcs,
                   weaks, handles, muts, logical, ub>>

\* The panic leaves the frame that held the handle: every local of the frame
\* has been dropped by then.
Propagate ==
    /\ mode = "unwind" /\ ~ub
    /\ handles = 0
    /\ mode' = "run"
    /\ last' = Op("propagate", "Panic", NoVal)
    /\ out' = NoOut /\ UNCHANGED <<rest, rounds, build, align, ptr, strong, weak, value, alive, drops, freed, rcs,
                   weaks, handles, muts, logical, ub>>

\* ---- std::rc on the same control block ---------------------------------------

RcDeref ==
    /\ Running /\ FreeRc
    /\ last' = Op("rc_deref", "Ok", value)
    /\ out' = NoOut /\ UNCHANGED <<rest, rounds, build, align, ptr, strong, weak, value, alive, drops, freed, rcs,
                   weaks, handles, muts, logical, mode, ub>>

RcClone ==
    /\ Running /\ FreeRc
    /\ strong < MaxStrong
    /\ strong' = Wrap(strong + 1)
    /\ rcs' = rcs + 1
    /\ last' = Op("clone", "Ok", NoVal)
    /\ ub' = (ub \/ strong = 0)     \* inc_strong assumes strong != 0
    /\ out' = NoOut /\ UNCHANGED <<rest, rounds, build, align, ptr, weak, value, alive, drops, freed, weaks, handles,
                   muts, logical, mode>>

RcDrop ==
    /\ Dropping /\ FreeRc
    /\ strong' = Wrap(strong - 1 + UsizeModulus)
    /\ rcs' = rcs - 1
    /\ IF strong' = 0
       THEN /\ alive' = FALSE
            /\ drops' = drops + 1
            /\ weak' = Wrap(weak - 1 + UsizeModulus)
            /\ freed' = (weak' = 0)
       ELSE UNCHANGED <<alive, drops, weak, freed>>
    /\ last' = Op("drop", "Ok", NoVal)
    /\ out' = NoOut /\ UNCHANGED <<rest, rounds, build, align, ptr, value, weaks, handles, muts, logical, mode, ub>>

RcDowngrade ==
    /\ Running /\ FreeRc
    /\ weaks < MaxWeak
    /\ weak' = Wrap(weak + 1)
    /\ weaks' = weaks + 1
    /\ last' = Op("downgrade", "Ok", NoVal)
    /\ out' = NoOut /\ UNCHANGED <<rest, rounds, build, align, ptr, strong, value, alive, drops, freed, rcs, handles,
                   muts, logical, mode, ub>>

WeakUpgrade ==
    /\ Running /\ weaks > 0
    /\ IF strong = 0
       THEN /\ last' = Op("upgrade", "None", NoVal)
            /\ UNCHANGED <<strong, rcs>>
       ELSE /\ strong < MaxStrong
            /\ strong' = Wrap(strong + 1)
            /\ rcs' = rcs + 1
            /\ last' = Op("upgrade", "Some", value)
    /\ out' = NoOut /\ UNCHANGED <<rest, rounds, build, align, ptr, weak, value, alive, drops, freed, weaks, handles,
                   muts, logical, mode, ub>>

WeakDrop ==
    /\ Dropping /\ weaks > 0
    /\ weak' = Wrap(weak - 1 + UsizeModulus)
    /\ weaks' = weaks - 1
    /\ freed' = (weak' = 0)
    /\ last' = Op("weak_drop", "Ok", NoVal)
    /\ out' = NoOut /\ UNCHANGED <<rest, rounds, build, align, ptr, strong, value, alive, drops, rcs, handles, muts,
                   logical, mode, ub>>

Next ==
    \/ TryBorrowMut
    \/ BorrowMut
    \/ HandleDeref
    \/ HandleDerefMut
    \/ HandleFmt
    \/ HandleSort
    \/ Release
    \/ Panic
    \/ Propagate
    \/ RcDeref
    \/ RcClone
    \/ RcDrop
    \/ RcDowngrade
    \/ WeakUpgrade
    \/ WeakDrop

Spec == Init /\ [][Next]_vars

\* A caller leaks the handle (mem::forget): Drop for BorrowRefMut never runs and
\* the borrow of the Rc ends with the strong count still 0. This is the "prior
\* invariant violation elsewhere in the program" that try_borrow_mut's
\* debug_assert_ne! on the count looks for.
LeakHandle ==
    /\ Running /\ handles > 0
    /\ handles' = handles - 1
    /\ last' = Op("forget", "Ok", NoVal)
    /\ out' = NoOut
    /\ UNCHANGED <<rest, rounds, build, align, ptr, strong, weak, value, alive, drops,
                   freed, rcs, weaks, muts, logical, mode, ub>>

NextLeak == Next \/ LeakHandle

\* the operations with a caller that may leak the handle
SpecLeak == Init /\ [][NextLeak]_vars

\* the same operations on an Rc<[T]>
SpecSlice == InitSlice /\ [][Next]_vars

\* ---- what the steps are -------------------------------------------------------
\* Every action records itself in last, so the step that leads to a state whose
\* last.op is o is a step of the operation o.
Step(o) == last'.op = o
Borrows == {"try_borrow_mut", "borrow_mut"}

\* C1: try_borrow_mut on a pointer whose strong count is exactly 1 succeeds: it
\* returns a handle, the strong count becomes 0, and the handle dereferences to
\* the value the pointee held before the call.
C1_SoleOwnerSucceeds ==
    [][(Step("try_borrow_mut") /\ strong = 1)
          => /\ last'.res = "Ok"
             /\ handles' = handles + 1
             /\ strong' = 0
             /\ deref' = value
             /\ mode' = "run"]_vars

C1_Witness ==
    /\ last = Op("try_borrow_mut", "Ok", NoVal)
    /\ handles = 1 /\ strong = 0
    /\ deref = logical /\ deref = MaxVal

\* C2: try_borrow_mut while two or more strong references exist returns
\* OtherStrongReferencesExist, creates no handle and changes nothing: strong
\* (still >= 2), weak and the pointee keep their values, and the references read
\* the original value.
C2_SharedOwnerFails ==
    [][(Step("try_borrow_mut") /\ strong >= 2)
          => /\ last'.res = "Err"
             /\ handles' = handles
             /\ strong' = strong /\ strong' >= 2
             /\ weak' = weak
             /\ value' = value /\ value' = logical'
             /\ rcs' = rcs /\ weaks' = weaks
             /\ alive' = alive /\ freed' = freed /\ ~ub'
             /\ mode' = "run"]_vars

C2_Witness ==
    /\ last = Op("try_borrow_mut", "Err", NoVal)
    /\ strong = MaxStrong /\ rcs = MaxStrong /\ weaks > 0
    /\ handles = 0 /\ value = MaxVal

\* C3: while the handle is alive every upgrade of a weak reference fails and
\* leaves the strong count at 0, however many writes went through the handle.
C3_UpgradeFailsInWindow ==
    [][(Step("upgrade") /\ handles > 0)
          => /\ last'.res = "None"
             /\ strong = 0 /\ strong' = 0
             /\ rcs' = rcs]_vars

C3_Witness ==
    /\ last = Op("upgrade", "None", NoVal)
    /\ handles = 1 /\ muts = MaxMuts /\ strong = 0 /\ alive

\* C4: after a normal drop of the handle the strong count is 1 again, and the
\* upgrade of a weak reference then succeeds and reads the value as last
\* written through the handle.
C4_RestoredOnRelease ==
    [][/\ (Step("release") /\ mode = "run")
            => /\ last'.res = "Ok"
               /\ strong' = 1 /\ handles' = 0
               /\ value' = logical'
               /\ mode' = "run"
       /\ (Step("upgrade") /\ last.op = "release")
            => /\ last'.res = "Some"
               /\ last'.val = logical
               /\ strong' = 2 /\ rcs' = 2]_vars

C4_Witness ==
    /\ last = Op("upgrade", "Some", MaxVal)
    /\ logical = MaxVal
    /\ muts = MaxMuts /\ handles = 0
    /\ strong = 2 /\ rcs = 2

\* C5: the release runs on every exit path, the unwinding of a panic raised
\* after a write through the handle included: it restores the strong count
\* from 0 to 1 without failing, and the panic leaves the frame only with the
\* handle released and the count restored.
C5_ReleaseOnEveryPath ==
    [][/\ Step("release")
            => /\ last'.res = "Ok"
               /\ strong = 0 /\ strong' = 1
               /\ handles' = handles - 1
               /\ mode' = mode
       /\ Step("propagate")
            => /\ handles = 0
               /\ strong = rcs
               /\ (alive => strong >= 1)]_vars

C5_Witness ==
    /\ last = Op("release", "Ok", NoVal)
    /\ mode = "unwind"
    /\ muts > 0 /\ strong = 1 /\ handles = 0 /\ weaks > 0

\* C6: at most one handle is open at a time, and while a handle is open
\* exactly one strong pointer to the control block exists.
C6_OneHandleOnePointer ==
    /\ handles \in {0, 1}
    /\ handles = 1 => rcs = 1

C6_Witness ==
    /\ handles = 1 /\ rcs = 1
    /\ last.op = "upgrade" /\ weaks = MaxWeak

C8_BorrowMutSameRule ==
    [][/\ Step("try_borrow_mut")
            => (last'.res = "Err" <=> strong > 1)
       /\ Step("borrow_mut")
            => /\ last'.res = "Panic" <=> strong > 1
               /\ last'.res = "Ok" <=> strong = 1
               /\ last'.res = "Panic"
                    => /\ mode' = "unwind"
                       /\ strong' = strong /\ weak' = weak /\ value' = value
                       /\ handles' = handles
               /\ last'.res = "Ok"
                    => /\ mode' = "run"
                       /\ strong' = 0 /\ weak' = weak /\ value' = value
                       /\ handles' = handles + 1]_vars

C8_Witness ==
    /\ last = Op("borrow_mut", "Panic", NoVal)
    /\ mode = "unwind" /\ strong = 2 /\ rcs = 2 /\ handles = 0

\* The number of weak references as std reports it (Rc::weak_count): the weak
\* field less the one reference the strong pointers hold together.
WeakCount == weak - (IF rcs > 0 THEN 1 ELSE 0)

\* C9: try_borrow_mut (success or failure), borrow_mut, the handle's
\* dereferences and its release leave the weak count as it is; the number of
\* weak references changes only by downgrade and by the drop of a weak pointer.
C9_WeakUntouched ==
    [][/\ last'.op \in Borrows \cup {"deref", "deref_mut", "release"}
            => weak' = weak
       /\ WeakCount' # WeakCount
            => last'.op \in {"downgrade", "weak_drop"}]_vars

C9_Witness ==
    /\ last = Op("release", "Ok", NoVal)
    /\ weaks = MaxWeak /\ weak = MaxWeak + 1 /\ muts > 0

\* C10: while a handle is open, and by its release, the pointee is not
\* destroyed and the control block is not freed, even with every weak reference
\* dropped in the window; the destructor runs once, when the last strong
\* pointer is dropped with no handle open.
C10_PointeeOutlivesWindow ==
    /\ [](handles > 0 => alive /\ ~freed /\ drops = 0)
    /\ [](drops <= 1 /\ (alive <=> drops = 0))
    /\ [][/\ Step("release")
               => alive' = alive /\ freed' = freed /\ drops' = drops
          /\ drops' # drops
               => /\ Step("drop")
                  /\ handles = 0 /\ rcs = 1 /\ rcs' = 0
          /\ (freed' /\ ~freed)
               => handles = 0 /\ rcs' = 0 /\ weaks' = 0]_vars

C10_Witness ==
    /\ last = Op("weak_drop", "Ok", NoVal)
    /\ handles = 1 /\ weaks = 0 /\ strong = 0 /\ muts > 0
    /\ alive /\ ~freed

\* C11: reads and writes through the handle reach the pointee the Rc holds:
\* a write through the mutable view, the in-place sort of a slice included, is
\* what later reads of the handle see and what the Rc reads after the release.
C11_SamePointee ==
    /\ [](value = logical)
    /\ [][/\ Step("deref")
               => last'.val = logical
          /\ Step("deref_mut")
               => value' = last'.val /\ deref' = last'.val /\ rest' = rest
          /\ Step("sort")
               => /\ <<value'>> \o rest' = slice_sort(<<value>> \o rest)
                  /\ \A i \in 1..Len(rest') :
                        (IF i = 1 THEN value' ELSE rest'[i - 1]) <= rest'[i]
                  /\ deref' = last'.val
          /\ Step("release")
               => value' = value /\ rest' = rest
          /\ (Step("rc_deref") \/ (Step("upgrade") /\ last'.res = "Some"))
               => last'.val = logical]_vars

C11_Witness ==
    /\ last = Op("sort", "Reordered", 0)
    /\ <<value>> \o rest = <<0, 1, 2>>
    /\ handles = 1 /\ strong = 0

\* C12: formatting the handle, with Display or with Debug, gives the pointee's
\* own formatting of its current value (1 prints as "1") and changes neither
\* count nor the pointee.
C12_FmtTransparent ==
    [][Step("fmt")
          => /\ out' = T_fmt(last'.res, logical, rest)
             /\ (logical = 1 /\ rest = <<>>) => out' = <<"1">>
             /\ strong' = strong /\ weak' = weak
             /\ value' = value /\ rest' = rest
             /\ handles' = handles /\ ~ub']_vars

C12_Witness ==
    /\ last = Op("fmt", "Debug", NoVal)
    /\ out = <<"1">> /\ logical = 1
    /\ handles = 1 /\ muts = 1 /\ weaks = 1

C14_StoppedByAssertion ==
    [][(Step("try_borrow_mut") /\ strong = 0)
          => /\ last'.res = "AssertFailed"
             /\ handles' = handles
             /\ strong' = strong]_vars

\* C14 (amended): try_borrow_mut at strong count 0 never returns
\* OtherStrongReferencesExist. With debug assertions it is stopped by the
\* assertion on the count: no handle, count unchanged. Without them the
\* assertion is not compiled: the call returns a handle and the count wraps
\* from 0 to the largest usize.
C14_ZeroCountNotReported ==
    [][(Step("try_borrow_mut") /\ strong = 0)
          => /\ last'.res # "Err"
             /\ build = "debug"
                  => /\ last'.res = "AssertFailed"
                     /\ mode' = "unwind"
                     /\ handles' = handles
                     /\ strong' = 0
             /\ build = "release"
                  => /\ last'.res = "Ok"
                     /\ handles' = handles + 1
                     /\ strong' = UsizeModulus - 1]_vars

C14_Witness ==
    /\ last = Op("try_borrow_mut", "AssertFailed", NoVal)
    /\ build = "debug" /\ mode = "unwind"
    /\ strong = 0 /\ handles = 0 /\ rcs = 1 /\ alive

\* the value the update closures of try_borrow_mut and of the handle's Drop read
StrongRead == Load(raw_to_rc_box(Rc_as_ptr))

RoundUp(n, a) == CHOOSE m \in n..(n + a) : m % a = 0 /\ \A k \in n..(m - 1) : k % a # 0

\* C16: the offset address recovery subtracts is the header size (the two
\* counts) rounded up to the pointee's alignment, for every power-of-two
\* alignment, and recovery from the pointee address of a block laid out header
\* then payload gives the block's address.
C16_OffsetRoundTrip ==
    /\ \A a \in Aligns : data_offset_align(a) = RoundUp(2 * UsizeSize, a)
    /\ data_offset(Rc_as_ptr) = RoundUp(2 * UsizeSize, align)
    /\ Rc_as_ptr = ptr + RoundUp(2 * UsizeSize, align)
    /\ raw_to_rc_box(Rc_as_ptr) = ptr

C16_Witness ==
    /\ align > 2 * UsizeSize
    /\ raw_to_rc_box(Rc_as_ptr) = ptr /\ Rc_as_ptr - ptr = align
    /\ last = Op("try_borrow_mut", "Ok", NoVal) /\ strong = 0

\* C17: the strong count is the number of live strong pointers with no handle
\* open and that number less one, 0, with a handle open; failed borrows and
\* completed windows do not make it drift.
C17_CountMatchesPointers ==
    /\ strong = rcs - handles
    /\ handles = 1 => strong = 0

C17_Witness ==
    /\ last = Op("try_borrow_mut", "Err", NoVal)
    /\ rounds = MaxRounds /\ handles = 0
    /\ strong = 2 /\ rcs = 2

\* C18: a successful borrow and the release of its handle return the counts to
\* strong = 1 with the weak count untouched, so the next try_borrow_mut on the
\* pointer succeeds, window after window; after a clone it fails.
C18_WindowRoundTrip ==
    /\ []((Running /\ handles = 0 /\ rcs = 1) => strong = 1)
    /\ [][/\ last'.op \in Borrows \cup {"release"}
               => weak' = weak
          /\ Step("release")
               => strong' = 1 /\ rounds' >= 1
          /\ (Step("try_borrow_mut") /\ last.op = "release")
               => last'.res = "Ok" /\ strong' = 0 /\ handles' = 1
          /\ (Step("try_borrow_mut") /\ last.op = "clone")
               => last'.res = "Err" /\ handles' = handles]_vars

C18_Witness ==
    /\ last = Op("try_borrow_mut", "Ok", NoVal)
    /\ rounds = MaxRounds /\ handles = 1 /\ strong = 0 /\ weaks = MaxWeak

====
